---- MODULE Spec2Model ----
(***************************************************************************)
(* budget.py: the pipeline main() runs over the selected account exports:  *)
(* process_multiple_files (read_transactions per file, the date sort, one  *)
(* categorize_transaction call per transaction, the grouping), then        *)
(* display_results, then export_to_csv.                                    *)
(*                                                                         *)
(* A text is a sequence of strings.  Amounts and dates are spelled one     *)
(* character per element, so that float(), str.replace() and strptime()    *)
(* are computed on the text; category names, file names and report labels  *)
(* are spelled one token per element.  An amount's value is kept in cents. *)
(***************************************************************************)
EXTENDS Integers, Sequences, FiniteSets, TLC

\* Bound: number of rows over all the files of one run.
MaxTx == 3

----------------------------------------------------------------------------
(* Text helpers: the str methods the program uses. *)

Digits == {"0", "1", "2", "3", "4", "5", "6", "7", "8", "9"}

DigitVal(c) ==
    CASE c = "0" -> 0 [] c = "1" -> 1 [] c = "2" -> 2 [] c = "3" -> 3
      [] c = "4" -> 4 [] c = "5" -> 5 [] c = "6" -> 6 [] c = "7" -> 7
      [] c = "8" -> 8 [] c = "9" -> 9

DigitChar(d) ==
    CASE d = 0 -> "0" [] d = 1 -> "1" [] d = 2 -> "2" [] d = 3 -> "3"
      [] d = 4 -> "4" [] d = 5 -> "5" [] d = 6 -> "6" [] d = 7 -> "7"
      [] d = 8 -> "8" [] d = 9 -> "9"

AllDigits(s) == Len(s) > 0 /\ \A k \in 1..Len(s) : s[k] \in Digits

RECURSIVE NatOf(_)
\* the number a non-empty string of digits spells
NatOf(s) ==
    IF Len(s) = 0 THEN 0
    ELSE 10 * NatOf(SubSeq(s, 1, Len(s) - 1)) + DigitVal(s[Len(s)])

RECURSIVE CharsOf(_)
\* the decimal spelling of a natural number
CharsOf(n) ==
    IF n < 10 THEN <<DigitChar(n)>>
    ELSE CharsOf(n \div 10) \o <<DigitChar(n % 10)>>

Abs(x) == IF x < 0 THEN -x ELSE x

\* position of the first element equal to c, 0 when there is none
FirstIndex(s, c) ==
    LET at == { k \in 1..Len(s) : s[k] = c } IN
    IF at = {} THEN 0 ELSE CHOOSE k \in at : \A j \in at : k <= j

\* position of the last element equal to c, 0 when there is none
LastIndex(s, c) ==
    LET at == { k \in 1..Len(s) : s[k] = c } IN
    IF at = {} THEN 0 ELSE CHOOSE k \in at : \A j \in at : k >= j

\* str.replace(c, ''): every occurrence of c removed
Remove(s, c) == SelectSeq(s, LAMBDA x : x # c)

RECURSIVE Strip(_)
\* str.strip(): leading and trailing blanks removed
Strip(s) ==
    IF Len(s) = 0 THEN s
    ELSE IF s[1] = " " THEN Strip(Tail(s))
    ELSE IF s[Len(s)] = " " THEN Strip(SubSeq(s, 1, Len(s) - 1))
    ELSE s

RECURSIVE SplitAll(_, _)
\* str.split(c): the pieces between the occurrences of c
SplitAll(s, c) ==
    LET k == FirstIndex(s, c) IN
    IF k = 0 THEN <<s>>
    ELSE <<SubSeq(s, 1, k - 1)>> \o SplitAll(SubSeq(s, k + 1, Len(s)), c)

\* str.split(c, 1): split at the first occurrence of c only
SplitFirst(s, c) ==
    LET k == FirstIndex(s, c) IN
    IF k = 0 THEN <<s>>
    ELSE <<SubSeq(s, 1, k - 1), SubSeq(s, k + 1, Len(s))>>

RECURSIVE Join(_, _)
\* sep.join(texts)
Join(texts, sep) ==
    IF Len(texts) = 0 THEN <<>>
    ELSE IF Len(texts) = 1 THEN texts[1]
    ELSE texts[1] \o sep \o Join(Tail(texts), sep)

\* dict.get(key, default)
DictGet(d, key, default) == IF key \in DOMAIN d THEN d[key] ELSE default

----------------------------------------------------------------------------
(* float(): the decimal literals the exports hold: an optional sign,       *)
(* digits, and optionally a point and one or two digits.  Anything else    *)
(* (a '$', a ',', letters) is a ValueError.                                *)

Unsigned(s) == IF Len(s) > 0 /\ s[1] \in {"+", "-"} THEN Tail(s) ELSE s

FloatOk(s) ==
    LET u == Unsigned(s)
        p == SplitAll(u, ".")
    IN  /\ Len(p) \in {1, 2}
        /\ AllDigits(p[1])
        /\ Len(p) = 2 => AllDigits(p[2]) /\ Len(p[2]) <= 2

\* the value of float(s) in cents, where FloatOk(s)
FloatCents(s) ==
    LET u == Unsigned(s)
        p == SplitAll(u, ".")
        frac == IF Len(p) = 1 THEN 0
                ELSE IF Len(p[2]) = 1 THEN 10 * NatOf(p[2])
                ELSE NatOf(p[2])
        mag == 100 * NatOf(p[1]) + frac
    IN  IF Len(s) > 0 /\ s[1] = "-" THEN -mag ELSE mag

\* f"{abs(x):.2f}" for x in cents
Fixed2(x) ==
    LET a == Abs(x) IN
    CharsOf(a \div 100) \o <<".">> \o <<DigitChar((a % 100) \div 10), DigitChar(a % 10)>>

----------------------------------------------------------------------------
(* datetime.strptime(text, '%m/%d/%Y') *)

IsLeap(y) == (y % 4 = 0 /\ y % 100 # 0) \/ y % 400 = 0

DaysInMonth(m, y) ==
    IF m = 2 THEN (IF IsLeap(y) THEN 29 ELSE 28)
    ELSE IF m \in {4, 6, 9, 11} THEN 30 ELSE 31

StrptimeOk(s) ==
    LET p == SplitAll(s, "/") IN
    /\ Len(p) = 3
    /\ AllDigits(p[1]) /\ Len(p[1]) <= 2
    /\ AllDigits(p[2]) /\ Len(p[2]) <= 2
    /\ AllDigits(p[3]) /\ Len(p[3]) = 4
    /\ NatOf(p[1]) \in 1..12
    /\ NatOf(p[3]) >= 1
    /\ NatOf(p[2]) \in 1..DaysInMonth(NatOf(p[1]), NatOf(p[3]))

\* the parsed date, as a number that orders as the datetime does
StrptimeKey(s) ==
    LET p == SplitAll(s, "/") IN
    NatOf(p[3]) * 10000 + NatOf(p[1]) * 100 + NatOf(p[2])

----------------------------------------------------------------------------
(* The inputs of a run: the selected files and the rows they hold. *)

chase_path == <<"accounts", "/", "chase", "_", "1234", ".CSV">>
amex_path == <<"accounts", "/", "amex", "_", "2024", ".csv">>

\* the header line of a Chase debit export, and of a credit card export
DebitHeader == <<"Details", ",", "Posting Date", ",", "Description", ",",
                 "Amount", ",", "Type", ",", "Balance">>
CreditHeader == <<"Transaction Date", ",", "Description", ",", "Category", ",",
                  "Amount">>

Jan05 == <<"0", "1", "/", "0", "5", "/", "2", "0", "2", "4">>
Dec01 == <<"1", "2", "/", "0", "1", "/", "2", "0", "2", "3">>
IsoDate == <<"2", "0", "2", "4", "-", "0", "1", "-", "0", "5">>

Minus5412 == <<"-", "5", "4", ".", "1", "2">>
Plus2000 == <<"2", "0", ".", "0", "0">>
Dollar1200 == <<"$", "1", ",", "2", "0", "0", ".", "0", "0">>
NotAvailable == <<"N", "/", "A">>

\* the (date, amount) cells a row of each export may hold
DebitCells == { [date |-> Jan05, amount |-> Minus5412],
                [date |-> Dec01, amount |-> NotAvailable] }
CreditCells == { [date |-> Dec01, amount |-> Plus2000],
                 [date |-> IsoDate, amount |-> Dollar1200] }

\* row n of the debit export, as csv.DictReader yields it
DebitRow(cells, n) ==
    [c \in {"Details", "Posting Date", "Description", "Amount", "Type", "Balance"} |->
        CASE c = "Details" -> <<"DEBIT">>
          [] c = "Posting Date" -> cells.date
          [] c = "Description" -> <<"SAMSCLUB #", DigitChar(n)>>
          [] c = "Amount" -> cells.amount
          [] c = "Type" -> <<"ACH_DEBIT">>
          [] c = "Balance" -> <<"0">>]

\* row n of the credit export, as csv.DictReader yields it
CreditRow(cells, n) ==
    [c \in {"Transaction Date", "Description", "Category", "Amount"} |->
        CASE c = "Transaction Date" -> cells.date
          [] c = "Description" -> <<"CHE*CHEGG STUDY ", DigitChar(n)>>
          [] c = "Category" -> <<"Shopping">>
          [] c = "Amount" -> cells.amount]

SeqsUpTo(S, n) == UNION { [1..k -> S] : k \in 0..n }

FileOrders == { <<chase_path>>, <<amex_path>>,
                <<chase_path, amex_path>>, <<amex_path, chase_path>> }

Range(s) == { s[k] : k \in 1..Len(s) }

\* what the classification service may do with one request
Outcomes ==
    { [kind |-> "raise", content |-> <<>>],
      [kind |-> "content", content |-> <<"Spending", ":", " ", "groceries">>],
      [kind |-> "content", content |-> <<"Incoming", ":", " ", "venmo">>],
      [kind |-> "content", content |-> <<"Spending", ":", " ">>],
      [kind |-> "content", content |-> <<"Food">>] }

----------------------------------------------------------------------------
VARIABLES
    disk,              \* path -> [first_line, rows]: the files in accounts/
    file_paths,        \* the files selected for the run, in processing order
    all_transactions,  \* process_multiple_files: the combined list
    order,             \* order[k]: the position all_transactions[k] was read at
    i,                 \* process_multiple_files: transactions categorized so far
    calls,             \* per transaction categorized: the service's outcome and
                       \* the pair categorize_transaction returned
    categorized,       \* main category -> subcategory -> list, insertion-ordered
    shown,             \* display_results: the lines printed and the total
    report,            \* export_to_csv: csv_data and the totals computed
    raised,            \* the exception that ended the run, if any
    pc                 \* where main() is

vars == <<disk, file_paths, all_transactions, order, i, calls, categorized,
          shown, report, raised, pc>>

NoError == [where |-> "", exc |-> ""]
NothingShown == [lines |-> <<>>, total |-> 0]
NoReport == [csv_data |-> <<>>, total |-> 0, category_totals |-> <<>>]

Init ==
    \E fp \in FileOrders, d \in SeqsUpTo(DebitCells, MaxTx),
       c \in SeqsUpTo(CreditCells, MaxTx) :
        /\ Len(d) + Len(c) <= MaxTx
        /\ chase_path \notin Range(fp) => d = <<>>
        /\ amex_path \notin Range(fp) => c = <<>>
        /\ file_paths = fp
        /\ disk = [p \in {chase_path, amex_path} |->
                    IF p = chase_path
                    THEN [first_line |-> DebitHeader,
                          rows |-> [n \in 1..Len(d) |-> DebitRow(d[n], n)]]
                    ELSE [first_line |-> CreditHeader,
                          rows |-> [n \in 1..Len(c) |-> CreditRow(c[n], n)]]]
        /\ all_transactions = <<>>
        /\ order = <<>>
        /\ i = 0
        /\ calls = <<>>
        /\ categorized = <<>>
        /\ shown = NothingShown
        /\ report = NoReport
        /\ raised = NoError
        /\ pc = "read"

----------------------------------------------------------------------------
(* read_transactions *)

\* os.path.basename(path)
basename(path) == SubSeq(path, LastIndex(path, "/") + 1, Len(path))

\* os.path.basename(file_path).split('_')[0]
account_name(path) == SplitAll(basename(path), "_")[1]

\* needle in text
Contains(text, needle) ==
    \E k \in 0..(Len(text) - Len(needle)) :
        SubSeq(text, k + 1, k + Len(needle)) = needle

is_debit_format(first_line) == Contains(first_line, DebitHeader)

\* the transaction made of one row
standardize(row, debit, account) ==
    IF debit
    THEN [c \in {"Transaction Date", "Description", "Amount", "Category", "Type",
                 "Balance", "Account"} |->
            CASE c = "Transaction Date" -> DictGet(row, "Posting Date", <<>>)
              [] c = "Description" -> DictGet(row, "Description", <<>>)
              [] c = "Amount" -> DictGet(row, "Amount", <<"0", ".", "0">>)
              [] c = "Category" -> <<>>
              [] c = "Type" -> DictGet(row, "Type", <<>>)
              [] c = "Balance" -> DictGet(row, "Balance", <<"0", ".", "0">>)
              [] c = "Account" -> account]
    ELSE [c \in (DOMAIN row) \cup {"Account"} |->
            IF c = "Account" THEN account ELSE row[c]]

read_transactions(file_path) ==
    LET file == disk[file_path]
        debit == is_debit_format(file.first_line)
        account == account_name(file_path)
    IN  [n \in 1..Len(file.rows) |-> standardize(file.rows[n], debit, account)]

RECURSIVE extend_all(_)
\* lines 162-165: the files' transactions, file after file
extend_all(paths) ==
    IF Len(paths) = 0 THEN <<>>
    ELSE read_transactions(paths[1]) \o extend_all(Tail(paths))

----------------------------------------------------------------------------
(* process_multiple_files: the date sort *)

sort_key_ok(t) ==
    "Transaction Date" \in DOMAIN t /\ StrptimeOk(t["Transaction Date"])

RECURSIVE StableOrder(_, _)
\* the positions 1..n in ascending order of key, equal keys in position order
StableOrder(keys, n) ==
    IF n = 0 THEN <<>>
    ELSE LET prev == StableOrder(keys, n - 1)
             pos == Cardinality({ j \in 1..Len(prev) : keys[prev[j]] <= keys[n] })
         IN  SubSeq(prev, 1, pos) \o <<n>> \o SubSeq(prev, pos + 1, Len(prev))

Identity(n) == [k \in 1..n |-> k]

\* a sort that gives an unparseable date the lowest key instead of failing
sort_order_lenient(txs) ==
    StableOrder([k \in 1..Len(txs) |->
                    IF sort_key_ok(txs[k])
                    THEN StrptimeKey(txs[k]["Transaction Date"]) ELSE 0],
                Len(txs))

\* lines 168-171: list.sort computes every key before it moves an element; a key
\* that raises leaves the list as it was, and the bare except swallows the error
sort_order(txs) ==
    IF \A k \in 1..Len(txs) : sort_key_ok(txs[k])
    THEN StableOrder([k \in 1..Len(txs) |-> StrptimeKey(txs[k]["Transaction Date"])],
                     Len(txs))
    ELSE Identity(Len(txs))

----------------------------------------------------------------------------
(* categorize_transaction *)

\* lines 27-37: the keys of BUDGET_CATEGORIES
BUDGET_CATEGORIES == { <<"Incoming">>, <<"Spending">>, <<"Investments">>, <<"Unknown">> }

\* lines 84-91: float(amount_str), and on ValueError once more without '$' and ','
amount_parses(t) ==
    \/ FloatOk(t["Amount"])
    \/ FloatOk(Remove(Remove(t["Amount"], "$"), ","))

\* lines 135-143
parse_response(content) ==
    LET categorization == Strip(content)
        parts == SplitFirst(categorization, ":")
    IN  [exc |-> "",
         main_category |-> Strip(parts[1]),
         subcategory |-> IF Len(parts) > 1 THEN Strip(parts[2]) ELSE <<"general">>]

\* a service failure that is not caught
ask_service_uncaught(outcome) ==
    IF outcome.kind = "content" THEN parse_response(outcome.content)
    ELSE [exc |-> "Exception", main_category |-> <<>>, subcategory |-> <<>>]

\* lines 124-147: the request, the parse of the answer, and the except branch
ask_service(outcome) ==
    IF outcome.kind = "content" THEN parse_response(outcome.content)
    ELSE [exc |-> "", main_category |-> <<"Unknown">>, subcategory |-> <<"error">>]

categorize_transaction(transaction, outcome) ==
    IF ~amount_parses(transaction)
    THEN [exc |-> "ValueError", main_category |-> <<>>, subcategory |-> <<>>]
    ELSE ask_service(outcome)

----------------------------------------------------------------------------
(* The grouped result: a dict is a sequence of [key, value] in insertion order. *)

Keys(d) == [k \in 1..Len(d) |-> d[k].key]

HasKey(d, key) == \E k \in 1..Len(d) : d[k].key = key

Lookup(d, key) == d[CHOOSE k \in 1..Len(d) : d[k].key = key].value

\* a store that moves the key it touches to the end
SetItemLast(d, key, value) ==
    Append(SelectSeq(d, LAMBDA e : e.key # key), [key |-> key, value |-> value])

\* d[key] = value: a new key goes last, a known key keeps its place
SetItem(d, key, value) ==
    IF HasKey(d, key)
    THEN [k \in 1..Len(d) |-> IF d[k].key = key THEN [key |-> key, value |-> value]
                                                ELSE d[k]]
    ELSE Append(d, [key |-> key, value |-> value])

\* lines 181-185 and 192-196: the record stored for a transaction
stored_record(transaction) ==
    [date |-> transaction["Transaction Date"],
     description |-> transaction["Description"],
     amount |-> transaction["Amount"],
     account |-> transaction["Account"],
     original_category |-> DictGet(transaction, "Category", <<>>)]

\* line 191: categorized[main_category][subcategory].append(...)
store(d, main_category, subcategory, rec) ==
    LET subs == IF HasKey(d, main_category) THEN Lookup(d, main_category) ELSE <<>>
        txs == IF HasKey(subs, subcategory) THEN Lookup(subs, subcategory) ELSE <<>>
    IN  SetItem(d, main_category, SetItem(subs, subcategory, Append(txs, rec)))

----------------------------------------------------------------------------
(* format_amount, and the totals of display_results and export_to_csv *)

\* format_amount of a number, in cents
format_amount(amount) ==
    IF amount > 0 THEN <<"+", "$">> \o Fixed2(amount)
    ELSE <<"-", "$">> \o Fixed2(amount)

\* format_amount of an amount text: the except branch returns the text as it is
format_amount_text(amount) ==
    IF FloatOk(amount) THEN format_amount(FloatCents(amount)) ELSE amount

\* f"${abs(total):.2f}"
format_total(total) == <<"$">> \o Fixed2(total)

\* float(t['amount']) succeeds for every transaction of the list
floats_ok(transactions) ==
    \A k \in 1..Len(transactions) : FloatOk(transactions[k].amount)

RECURSIVE sum_abs_amounts(_)
\* a total of the magnitudes instead of the signed amounts
sum_abs_amounts(transactions) ==
    IF Len(transactions) = 0 THEN 0
    ELSE Abs(FloatCents(transactions[1].amount)) + sum_abs_amounts(Tail(transactions))

RECURSIVE sum_amounts(_)
\* sum(float(t['amount']) for t in transactions)
sum_amounts(transactions) ==
    IF Len(transactions) = 0 THEN 0
    ELSE FloatCents(transactions[1].amount) + sum_amounts(Tail(transactions))

RECURSIVE SumSeq(_)
SumSeq(numbers) ==
    IF Len(numbers) = 0 THEN 0 ELSE numbers[1] + SumSeq(Tail(numbers))

RECURSIVE Flatten(_)
Flatten(seqs) ==
    IF Len(seqs) = 0 THEN <<>> ELSE seqs[1] \o Flatten(Tail(seqs))

\* every list of the grouped result, category after category
all_lists(d) ==
    Flatten([m \in 1..Len(d) |-> [n \in 1..Len(d[m].value) |-> d[m].value[n].value]])

\* float() succeeds on every amount of the grouped result
all_floats_ok(d) ==
    LET lists == all_lists(d) IN
    \A k \in 1..Len(lists) : floats_ok(lists[k])

\* lines 222-226 and 334-338: the overall total
overall_total(d) ==
    LET lists == all_lists(d) IN
    SumSeq([k \in 1..Len(lists) |-> sum_amounts(lists[k])])

\* lines 270-274: main_category_total and each subcategory_total of one category
category_totals(d) ==
    [m \in 1..Len(d) |->
        LET subtotals == [n \in 1..Len(d[m].value) |->
                            sum_amounts(d[m].value[n].value)]
        IN  [main_category |-> d[m].key,
             subcategory_totals |-> subtotals,
             main_category_total |-> SumSeq(subtotals)]]

----------------------------------------------------------------------------
(* display_results: the amount printed on each line, in order *)

display_category(subcategories) ==
    LET subtotals == [n \in 1..Len(subcategories) |->
                        sum_amounts(subcategories[n].value)]
    IN  Flatten([n \in 1..Len(subcategories) |->
                    <<format_total(subtotals[n])>>
                    \o [k \in 1..Len(subcategories[n].value) |->
                          format_amount_text(subcategories[n].value[k].amount)]])
        \o <<format_total(SumSeq(subtotals))>>

display_results(d) ==
    [lines |-> Flatten([m \in 1..Len(d) |-> display_category(d[m].value)])
               \o <<format_amount(overall_total(d))>>,
     total |-> overall_total(d)]

----------------------------------------------------------------------------
(* export_to_csv: csv_data *)

Row(date, description, amount, account, given, main, sub) ==
    [Date |-> date, Description |-> description, Amount |-> amount,
     Account |-> account, Given_Category |-> given, Main_Category |-> main,
     Subcategory |-> sub]

BlankRow == Row(<<>>, <<>>, <<>>, <<>>, <<>>, <<>>, <<>>)

\* lines 247-255
files_row(paths) ==
    Row(<<"Files Processed:">>,
        Join([k \in 1..Len(paths) |-> basename(paths[k])], <<", ">>),
        <<>>, <<>>, <<>>, <<>>, <<>>)

\* lines 277-285
subcategory_row(main_category, subcategory, subcategory_total) ==
    Row(<<>>, <<"== ">> \o main_category \o <<": ">> \o subcategory \o <<" ==">>,
        format_total(subcategory_total), <<>>, <<>>, main_category, subcategory)

\* lines 289-298
transaction_row(main_category, subcategory, t) ==
    Row(t.date, t.description, t.amount, t.account, t.original_category,
        main_category, subcategory)

\* lines 312-320
category_total_row(main_category, main_category_total) ==
    Row(<<>>, <<"=== TOTAL ">> \o main_category \o <<" ===">>,
        format_total(main_category_total), <<>>, <<>>, main_category, <<"TOTAL">>)

\* lines 341-349
overall_total_row(total) ==
    Row(<<>>, <<"=== OVERALL TOTAL ===">>, format_amount(total), <<>>, <<>>,
        <<"TOTAL">>, <<"TOTAL">>)

\* lines 272-309: one subcategory's header, its transactions, a blank row
subcategory_section(main_category, subcategory, transactions, subcategory_total) ==
    <<subcategory_row(main_category, subcategory, subcategory_total)>>
    \o [k \in 1..Len(transactions) |->
            transaction_row(main_category, subcategory, transactions[k])]
    \o <<BlankRow>>

\* a category whose total row comes before its subcategories
category_section_total_first(main_category, subcategories) ==
    LET subtotals == [n \in 1..Len(subcategories) |->
                        sum_amounts(subcategories[n].value)]
    IN  <<category_total_row(main_category, SumSeq(subtotals)), BlankRow>>
        \o Flatten([n \in 1..Len(subcategories) |->
                      subcategory_section(main_category, subcategories[n].key,
                                          subcategories[n].value, subtotals[n])])

\* lines 269-331: one category's subcategories, its total row, a blank row
category_section(main_category, subcategories) ==
    LET subtotals == [n \in 1..Len(subcategories) |->
                        sum_amounts(subcategories[n].value)]
    IN  Flatten([n \in 1..Len(subcategories) |->
                    subcategory_section(main_category, subcategories[n].key,
                                        subcategories[n].value, subtotals[n])])
        \o <<category_total_row(main_category, SumSeq(subtotals)), BlankRow>>

\* lines 244-349
csv_rows(d, paths) ==
    <<files_row(paths), BlankRow>>
    \o Flatten([m \in 1..Len(d) |-> category_section(d[m].key, d[m].value)])
    \o <<overall_total_row(overall_total(d))>>

export_to_csv(d, paths) ==
    [csv_data |-> csv_rows(d, paths),
     total |-> overall_total(d),
     category_totals |-> category_totals(d)]

----------------------------------------------------------------------------
(* main(): process_multiple_files, display_results, export_to_csv *)

\* lines 162-165
ReadFiles ==
    /\ pc = "read"
    /\ LET combined == extend_all(file_paths) IN
          /\ all_transactions' = combined
          /\ order' = Identity(Len(combined))
    /\ pc' = "sort"
    /\ UNCHANGED <<disk, file_paths, i, calls, categorized, shown, report, raised>>

\* lines 168-171
SortByDate ==
    /\ pc = "sort"
    /\ LET sorted == sort_order(all_transactions) IN
          /\ order' = sorted
          /\ all_transactions' =
                [k \in 1..Len(all_transactions) |-> all_transactions[sorted[k]]]
    /\ pc' = "categorize"
    /\ UNCHANGED <<disk, file_paths, i, calls, categorized, shown, report, raised>>

\* lines 177-197: one pass of the loop
Categorize ==
    /\ pc = "categorize"
    /\ i < Len(all_transactions)
    /\ \E outcome \in Outcomes :
          LET transaction == all_transactions[i + 1]
              r == categorize_transaction(transaction, outcome)
          IN  IF r.exc # ""
              THEN /\ raised' = [where |-> "categorize_transaction", exc |-> r.exc]
                   /\ pc' = "raised"
                   /\ UNCHANGED <<i, calls, categorized>>
              ELSE /\ categorized' = store(categorized, r.main_category,
                                           r.subcategory, stored_record(transaction))
                   /\ calls' = Append(calls,
                                      [description |-> transaction["Description"],
                                       outcome |-> outcome,
                                       main_category |-> r.main_category,
                                       subcategory |-> r.subcategory])
                   /\ i' = i + 1
                   /\ UNCHANGED <<raised, pc>>
    /\ UNCHANGED <<disk, file_paths, all_transactions, order, shown, report>>

\* line 199, and lines 201-228
DisplayResults ==
    /\ pc = "categorize"
    /\ i = Len(all_transactions)
    /\ IF all_floats_ok(categorized)
       THEN /\ shown' = display_results(categorized)
            /\ pc' = "export"
            /\ UNCHANGED raised
       ELSE /\ raised' = [where |-> "display_results", exc |-> "ValueError"]
            /\ pc' = "raised"
            /\ UNCHANGED shown
    /\ UNCHANGED <<disk, file_paths, all_transactions, order, i, calls,
                   categorized, report>>

\* lines 230-361
ExportToCsv ==
    /\ pc = "export"
    /\ IF all_floats_ok(categorized)
       THEN /\ report' = export_to_csv(categorized, file_paths)
            /\ pc' = "done"
            /\ UNCHANGED raised
       ELSE /\ raised' = [where |-> "export_to_csv", exc |-> "ValueError"]
            /\ pc' = "raised"
            /\ UNCHANGED report
    /\ UNCHANGED <<disk, file_paths, all_transactions, order, i, calls,
                   categorized, shown>>

Next ==
    \/ ReadFiles
    \/ SortByDate
    \/ Categorize
    \/ DisplayResults
    \/ ExportToCsv

Spec == Init /\ [][Next]_vars

----------------------------------------------------------------------------
(* Vocabulary of the properties *)

\* the transactions in the order the files gave them
InputList == extend_all(file_paths)

Descriptions(transactions) ==
    [k \in 1..Len(transactions) |-> transactions[k].description]

\* the (main category, subcategory) keys a description is stored under
KeysOf(description) ==
    UNION { { <<categorized[m].key, categorized[m].value[n].key>> :
                n \in { n \in 1..Len(categorized[m].value) :
                          description \in
                            Range(Descriptions(categorized[m].value[n].value)) } } :
            m \in 1..Len(categorized) }

\* the descriptions of the stored records, list after list
StoredDescriptions ==
    LET lists == all_lists(categorized) IN
    Flatten([k \in 1..Len(lists) |-> Descriptions(lists[k])])

\* how many of the descriptions are this one
Copies(descriptions, description) ==
    Len(SelectSeq(descriptions, LAMBDA x : x = description))

\* the value of an amount text once '$' and ',' are stripped
DecimalCents(amount) == FloatCents(Remove(Remove(amount, "$"), ","))

RECURSIVE InputSum(_)
\* the sum of the signed amounts of the transactions read
InputSum(transactions) ==
    IF Len(transactions) = 0 THEN 0
    ELSE FloatCents(transactions[1]["Amount"]) + InputSum(Tail(transactions))

\* position of the first call that returned the main category (the pair)
FirstMain(main) ==
    CHOOSE k \in 1..Len(calls) :
        /\ calls[k].main_category = main
        /\ \A j \in 1..(k - 1) : calls[j].main_category # main

FirstPair(main, sub) ==
    CHOOSE k \in 1..Len(calls) :
        /\ calls[k].main_category = main /\ calls[k].subcategory = sub
        /\ \A j \in 1..(k - 1) :
              ~(calls[j].main_category = main /\ calls[j].subcategory = sub)

NoRepeats(s) == \A a, b \in 1..Len(s) : a # b => s[a] # s[b]

\* the kinds of row of the report, told by what the row holds
IsBlank(r) == r = BlankRow
IsFilesRow(r) == r.Date = <<"Files Processed:">>
IsSubcategoryRow(r) == Len(r.Description) > 0 /\ r.Description[1] = "== "
IsCategoryTotalRow(r) == Len(r.Description) > 0 /\ r.Description[1] = "=== TOTAL "
IsOverallRow(r) == r.Description = <<"=== OVERALL TOTAL ===">>
IsTransactionRow(r) == r.Account # <<>>

NonBlank == SelectSeq(report.csv_data, LAMBDA r : ~IsBlank(r))

----------------------------------------------------------------------------
(* Properties *)

\* C1: a failure of the classification service never ends the run: every
\* transaction the service was asked about is stored exactly once, under
\* ("Unknown", "error") when the call failed and under the pair parsed from the
\* answer otherwise, and when categorize_transaction does raise, it is on a
\* transaction whose amount cannot be parsed, before any request is made.
C1_ServiceFailureIsolated ==
    /\ Len(calls) = i
    /\ LET stored == StoredDescriptions IN
       \A k \in 1..Len(calls) :
          /\ calls[k].description = all_transactions[k]["Description"]
          /\ Copies(stored, calls[k].description) = 1
          /\ KeysOf(calls[k].description) =
                IF calls[k].outcome.kind = "content"
                THEN { <<parse_response(calls[k].outcome.content).main_category,
                         parse_response(calls[k].outcome.content).subcategory>> }
                ELSE { << <<"Unknown">>, <<"error">> >> }
    /\ raised.where = "categorize_transaction" =>
          /\ i < Len(all_transactions)
          /\ ~amount_parses(all_transactions[i + 1])

\* a finished run whose first request failed and whose second was answered
C1_Witness ==
    /\ pc = "done"
    /\ Len(calls) >= 3
    /\ calls[1].outcome.kind = "raise"
    /\ calls[2].outcome.kind = "content"
    /\ calls[3].outcome.kind = "raise"

C3_SortAllOrNothing ==
    pc \notin {"read", "sort"} =>
        LET input == InputList
            n == Len(input)
            keys == [k \in 1..n |-> StrptimeKey(all_transactions[k]["Transaction Date"])]
        IN  /\ Len(order) = n
            /\ Range(order) = 1..n
            /\ \A k \in 1..n : all_transactions[k] = input[order[k]]
            /\ IF \A k \in 1..n : StrptimeOk(input[k]["Transaction Date"])
               THEN \A a, b \in 1..n :
                       a < b => /\ keys[a] <= keys[b]
                                /\ keys[a] = keys[b] => order[a] < order[b]
               ELSE all_transactions = input
            /\ \A k \in 1..Len(calls) :
                  calls[k].description = all_transactions[k]["Description"]

\* three transactions, all categorized, the last with a date that does not
\* parse and the first two with dates out of order
C3_Witness ==
    /\ Len(calls) = 3
    /\ Len(InputList) = 3
    /\ StrptimeOk(InputList[1]["Transaction Date"])
    /\ StrptimeOk(InputList[2]["Transaction Date"])
    /\ StrptimeKey(InputList[1]["Transaction Date"])
          > StrptimeKey(InputList[2]["Transaction Date"])
    /\ ~StrptimeOk(InputList[3]["Transaction Date"])

\* C4: the subcategory categorize_transaction returns is never empty: "general"
\* when the answer has no colon, "error" when the call fails, else the text
\* after the first colon.
C4_SubcategoryNeverEmpty ==
    \A k \in 1..Len(calls) :
        /\ calls[k].subcategory # <<>>
        /\ calls[k].outcome.kind # "content" => calls[k].subcategory = <<"error">>
        /\ (calls[k].outcome.kind = "content" /\ ":" \notin Range(calls[k].outcome.content))
              => calls[k].subcategory = <<"general">>

\* C5: a row whose amount cannot be parsed even without '$' and ',' is left out
\* and the run goes on: the run never ends in categorize_transaction, no request
\* is made for such a row, and a finished run has stored every other row.
C5_UnparseableRowSkipped ==
    /\ raised.where # "categorize_transaction"
    /\ LET input == InputList
           stored == StoredDescriptions
       IN  \A k \in 1..Len(input) :
              IF amount_parses(input[k])
              THEN pc = "done" => Copies(stored, input[k]["Description"]) = 1
              ELSE Copies(stored, input[k]["Description"]) = 0

\* C6: when every amount is a decimal once '$' and ',' are stripped, the run
\* completes without error and every amount stored and exported has that
\* decimal value.
C6_StrippedAmountCarried ==
    (\A k \in 1..Len(InputList) : amount_parses(InputList[k])) =>
        /\ raised = NoError
        /\ pc = "done" =>
              report.total =
                  SumSeq([k \in 1..Len(InputList) |-> DecimalCents(InputList[k]["Amount"])])

\* C7: grouping keeps arrival order at every level: main categories are in the
\* order each was first returned, the subcategories of a main category in the
\* order each was first returned under it, the transactions of a subcategory in
\* the order they were categorized, no key is repeated, and the report lists
\* the sections and the transactions in that same order.
C7_FirstSeenOrder ==
    /\ NoRepeats(Keys(categorized))
    /\ Range(Keys(categorized)) = { calls[k].main_category : k \in 1..Len(calls) }
    /\ \A a, b \in 1..Len(categorized) :
          a < b => FirstMain(categorized[a].key) < FirstMain(categorized[b].key)
    /\ \A m \in 1..Len(categorized) :
          LET main == categorized[m].key
              subs == categorized[m].value
          IN  /\ NoRepeats(Keys(subs))
              /\ Range(Keys(subs)) =
                    { calls[k].subcategory :
                        k \in { j \in 1..Len(calls) : calls[j].main_category = main } }
              /\ \A a, b \in 1..Len(subs) :
                    a < b => FirstPair(main, subs[a].key) < FirstPair(main, subs[b].key)
              /\ \A n \in 1..Len(subs) :
                    Descriptions(subs[n].value) =
                        Descriptions(SelectSeq(calls,
                            LAMBDA c : c.main_category = main
                                       /\ c.subcategory = subs[n].key))
    /\ pc = "done" =>
          /\ LET heads == SelectSeq(report.csv_data, IsSubcategoryRow) IN
             [k \in 1..Len(heads) |-> <<heads[k].Main_Category, heads[k].Subcategory>>]
                = Flatten([m \in 1..Len(categorized) |->
                             [n \in 1..Len(categorized[m].value) |->
                                <<categorized[m].key, categorized[m].value[n].key>>]])
          /\ LET rows == SelectSeq(report.csv_data, IsTransactionRow) IN
             [k \in 1..Len(rows) |-> rows[k].Description] = StoredDescriptions

\* a finished run whose third transaction went to the main category of the
\* first, after a second one that went elsewhere, and whose first and third
\* went to different subcategories
C7_Witness ==
    /\ pc = "done"
    /\ Len(calls) >= 3
    /\ calls[1].main_category = calls[3].main_category
    /\ calls[1].main_category # calls[2].main_category
    /\ calls[1].subcategory # calls[3].subcategory

\* the rows of a list of report rows that are transactions of one section
SectionRows(rows, main, sub) ==
    SelectSeq(rows, LAMBDA r : /\ IsTransactionRow(r)
                               /\ r.Main_Category = main
                               /\ r.Subcategory = sub)

CategoryRows(rows, main) ==
    SelectSeq(rows, LAMBDA r : IsTransactionRow(r) /\ r.Main_Category = main)

RowSum(rows) == SumSeq([k \in 1..Len(rows) |-> FloatCents(rows[k].Amount)])

KindsOf(r) ==
    { kind \in {"files", "subcategory", "transaction", "category total", "overall"} :
        \/ kind = "files" /\ IsFilesRow(r)
        \/ kind = "subcategory" /\ IsSubcategoryRow(r)
        \/ kind = "transaction" /\ IsTransactionRow(r)
        \/ kind = "category total" /\ IsCategoryTotalRow(r)
        \/ kind = "overall" /\ IsOverallRow(r) }

\* C8: the non-blank rows export_to_csv emits are: one header row naming the
\* source files; per main category, per subcategory, a subcategory row with
\* the absolute value of the subcategory's sum followed by one row per
\* transaction of the subcategory, and after the category's last subcategory
\* one category total row; last, one grand-total row.  Every transaction has
\* exactly one row, inside the section of the pair it was given.
C8_ReportLayout ==
    pc = "done" =>
        LET R == NonBlank
            last == Len(R)
            txrows == SelectSeq(R, IsTransactionRow)
            heads == SelectSeq(R, IsSubcategoryRow)
            cats == SelectSeq(R, IsCategoryTotalRow)
        IN  /\ last >= 2
            /\ \A k \in 1..last : Cardinality(KindsOf(R[k])) = 1
            /\ \A k \in 1..last : IsFilesRow(R[k]) <=> k = 1
            /\ \A k \in 1..last : IsOverallRow(R[k]) <=> k = last
            /\ R[1].Description =
                  Join([k \in 1..Len(file_paths) |-> basename(file_paths[k])], <<", ">>)
            /\ \A k \in 2..last :
                  LET r == R[k]
                      prev == R[k - 1]
                  IN  /\ IsSubcategoryRow(r) =>
                            /\ IsTransactionRow(R[k + 1])
                            /\ \/ IsFilesRow(prev)
                               \/ /\ IsCategoryTotalRow(prev)
                                  /\ prev.Main_Category # r.Main_Category
                               \/ /\ IsTransactionRow(prev)
                                  /\ prev.Main_Category = r.Main_Category
                                  /\ prev.Subcategory # r.Subcategory
                            /\ r.Amount = <<"$">> \o Fixed2(RowSum(
                                  SectionRows(R, r.Main_Category, r.Subcategory)))
                      /\ IsTransactionRow(r) =>
                            /\ IsSubcategoryRow(prev) \/ IsTransactionRow(prev)
                            /\ prev.Main_Category = r.Main_Category
                            /\ prev.Subcategory = r.Subcategory
                      /\ IsCategoryTotalRow(r) =>
                            /\ IsTransactionRow(prev)
                            /\ prev.Main_Category = r.Main_Category
                            /\ IsSubcategoryRow(R[k + 1]) \/ IsOverallRow(R[k + 1])
                            /\ r.Amount = <<"$">> \o Fixed2(RowSum(
                                  CategoryRows(R, r.Main_Category)))
                      /\ IsOverallRow(r) =>
                            IsFilesRow(prev) \/ IsCategoryTotalRow(prev)
            /\ NoRepeats([k \in 1..Len(heads) |->
                            <<heads[k].Main_Category, heads[k].Subcategory>>])
            /\ NoRepeats([k \in 1..Len(cats) |-> cats[k].Main_Category])
            /\ NoRepeats([k \in 1..Len(txrows) |-> txrows[k].Description])
            /\ Len(txrows) = Len(all_transactions)
            /\ \A k \in 1..Len(all_transactions) :
                  \E j \in 1..Len(txrows) :
                      /\ txrows[j].Description = all_transactions[k]["Description"]
                      /\ txrows[j].Date = all_transactions[k]["Transaction Date"]
                      /\ txrows[j].Account = all_transactions[k]["Account"]
            /\ \A j \in 1..Len(txrows) :
                  \E k \in 1..Len(calls) :
                      /\ calls[k].description = txrows[j].Description
                      /\ calls[k].main_category = txrows[j].Main_Category
                      /\ calls[k].subcategory = txrows[j].Subcategory

\* a report of two categories and three subcategories
C8_Witness ==
    /\ pc = "done"
    /\ Len(SelectSeq(report.csv_data, IsCategoryTotalRow)) = 2
    /\ Len(SelectSeq(report.csv_data, IsSubcategoryRow)) = 3
    /\ Len(SelectSeq(report.csv_data, IsTransactionRow)) = 3

\* C9: in the exported report every transaction row's amount reads "+$X.XX"
\* when positive and "-$X.XX" when negative, the subcategory and category
\* totals read "$X.XX" of the absolute value, and the grand total is in the
\* signed format format_amount gives.
C9_SignedAmountsInReport ==
    pc = "done" =>
        /\ \A k \in 1..Len(InputList) :
              \E j \in 1..Len(report.csv_data) :
                  /\ IsTransactionRow(report.csv_data[j])
                  /\ report.csv_data[j].Description = InputList[k]["Description"]
                  /\ report.csv_data[j].Amount =
                        (IF DecimalCents(InputList[k]["Amount"]) > 0
                         THEN <<"+", "$">> ELSE <<"-", "$">>)
                        \o Fixed2(DecimalCents(InputList[k]["Amount"]))
        /\ \A j \in 1..Len(report.csv_data) :
              LET r == report.csv_data[j] IN
              /\ (IsSubcategoryRow(r) \/ IsCategoryTotalRow(r)) => r.Amount[1] = "$"
              /\ IsOverallRow(r) => r.Amount = format_amount(InputSum(InputList))

\* C10: every main category of the grouped result is one of Incoming,
\* Spending, Investments, Unknown.
C10_ClosedCategorySet ==
    \A m \in 1..Len(categorized) : categorized[m].key \in BUDGET_CATEGORIES

====
